---- MODULE Spec2Model ----
(***************************************************************************)
(* A model of the Fastfood kernel approximation of                         *)
(* sklearn/kernel_approximation.py (class Fastfood, lines 503-796):        *)
(* the dimensionality planner, the structured transform in its dense,      *)
(* fast and vectorized forms, and the fit / transform life cycle of an     *)
(* estimator instance with its random sources.                             *)
(*                                                                         *)
(* Real numbers are kept symbolic.  The common factor 1/(sigma*sqrt(d)) is *)
(* carried as a tag, a scaling entry chi/||G|| is the pair (chi, ||G||^2), *)
(* and cos / sin are tags on their argument.  Vectors and matrices are     *)
(* sequences (of rows); the permutation P keeps the 0-based values of the  *)
(* code.                                                                   *)
(***************************************************************************)
EXTENDS Integers, Sequences, FiniteSets

VARIABLES
    call,       \* a call of one of the static functions: its arguments and results
    objs,       \* the Fastfood instances: instance id -> attribute record
    np_random,  \* the state of numpy's module-level RandomState
    last,       \* the last method call made on an instance, and its outcome
    fits        \* the fit calls completed so far, where they are recorded

vars == <<call, objs, np_random, last, fits>>

-----------------------------------------------------------------------------
(* Outcomes of a call. *)

Pending == [kind |-> "pending"]
Return(v) == [kind |-> "return", val |-> v]
Raise(e) == [kind |-> "raise", exc |-> e]

NoCall == [fn |-> "none"]
NoOp == [op |-> "none"]

-----------------------------------------------------------------------------
(* Integer helpers. *)

RECURSIVE BitAnd(_, _)
\* a & b on naturals
BitAnd(a, b) ==
    IF a = 0 \/ b = 0 THEN 0
    ELSE (a % 2) * (b % 2) + 2 * BitAnd(a \div 2, b \div 2)

RECURSIVE Pow2(_)
\* np.power(2, e) for e >= 0
Pow2(e) == IF e = 0 THEN 1 ELSE 2 * Pow2(e - 1)

RECURSIVE FloorLog2(_)
\* np.floor(np.log2(n)) for n >= 1
FloorLog2(n) == IF n <= 1 THEN 0 ELSE 1 + FloorLog2(n \div 2)

-----------------------------------------------------------------------------
(* The dimensionality planner. *)

\* Fastfood.is_number_power_of_two
is_number_power_of_two(n) == n # 0 /\ BitAnd(n, n - 1) = 0

\* a slip: rounds down to the power of two below d
next_power_of_two_down(d) == Pow2(FloorLog2(d))

\* line 574: d = np.power(2, np.floor(np.log2(d)) + 1), for d >= 1
next_power_of_two(d) == Pow2(FloorLog2(d) + 1)

\* a slip: the remainder is dropped, k = floor(n / d)
stack_count_floor(divisor, remainder) == divisor

\* lines 576-580: times_to_stack_v from divmod(n, d)
stack_count(divisor, remainder) ==
    IF remainder # 0 THEN divisor + 1 ELSE divisor

\* Fastfood.enforce_dimensionality_constraints(d, n) for d >= 0, n >= 0.
\* With d = 0 line 574 gives np.power(2, -inf) = 0.0, divmod(n, 0.0) gives
\* (inf, nan) or (nan, nan), and int() of it raises at line 576.
enforce_dimensionality_constraints(d, n) ==
    LET d2 == IF is_number_power_of_two(d) THEN d
              ELSE IF d = 0 THEN 0
              ELSE next_power_of_two(d)
    IN  IF d2 = 0
        THEN Raise(IF n = 0 THEN "ValueError" ELSE "OverflowError")
        ELSE LET divisor == n \div d2
                 remainder == n % d2
                 k == stack_count(divisor, remainder)
                 n2 == IF remainder # 0 THEN (divisor + 1) * d2 ELSE n
             IN  Return(<<d2, n2, k>>)

-----------------------------------------------------------------------------
(* Vectors and matrices.  A matrix is a sequence of rows of equal length. *)

\* an ndarray holds its values: the sequence f with every entry evaluated
Array(f) == f \o <<>>

RECURSIVE SumTo(_, _)
\* f[1] + ... + f[n]
SumTo(f, n) == IF n = 0 THEN 0 ELSE f[n] + SumTo(f, n - 1)

RECURSIVE Flatten(_)
\* np.ravel / the flat (row-major) view of a matrix
Flatten(M) == IF M = <<>> THEN <<>> ELSE Head(M) \o Flatten(Tail(M))

\* flat.reshape(rows, cols)
Reshape(flat, rows, cols) ==
    Array([i \in 1 .. rows |-> Array([c \in 1 .. cols |-> flat[(i - 1) * cols + c]])])

NumCols(M) == IF M = <<>> THEN 0 ELSE Len(M[1])

\* M.T
Transpose(M) ==
    Array([c \in 1 .. NumCols(M) |-> Array([i \in 1 .. Len(M) |-> M[i][c]])])

\* np.diag(v)
Diag(v) ==
    Array([i \in 1 .. Len(v) |-> Array([c \in 1 .. Len(v) |-> IF i = c THEN v[i] ELSE 0])])

\* np.dot(A, B) of integer matrices with matching inner dimension
MatMul(A, B) ==
    Array([i \in 1 .. Len(A) |->
        Array([c \in 1 .. NumCols(B) |->
            SumTo([j \in 1 .. Len(B) |-> A[i][j] * B[j][c]], Len(B))])])

\* np.take(a, p) on a vector, or np.take(a, p, axis=0) on the rows of a
\* matrix: out[i] = a[p[i]], p holding 0-based indices
Take(a, p) == Array([i \in 1 .. Len(p) |-> a[p[i] + 1]])

-----------------------------------------------------------------------------
(* The fast Hadamard transform of the fht package (unnormalized). *)

RECURSIVE fht1(_)
\* fht.fht1(x, normalized=False): the butterfly on a vector whose length is a
\* power of two, H_2m = [[H_m, H_m], [H_m, -H_m]]
fht1(x) ==
    IF Len(x) <= 1 THEN x
    ELSE LET m == Len(x) \div 2
             a == SubSeq(x, 1, m)
             b == SubSeq(x, m + 1, 2 * m)
         IN  fht1(Array([i \in 1 .. m |-> a[i] + b[i]]))
                 \o fht1(Array([i \in 1 .. m |-> a[i] - b[i]]))

\* Fastfood.approx_fourier_transformation
approx_fourier_transformation(result) == fht1(result)

\* Fastfood.approx_fourier_transformation_multi_dim: fht2 along axis 1
approx_fourier_transformation_multi_dim(result) ==
    Array([i \in 1 .. Len(result) |-> fht1(result[i])])

\* Fastfood.hadamard: fht2 along axis 0
hadamard(X) ==
    LET XT == Transpose(X)
    IN  Transpose(Array([c \in 1 .. Len(XT) |-> fht1(XT[c])]))

-----------------------------------------------------------------------------
(* Symbolic reals.  A scaling entry chi / ||G|| is [chi, g2] with g2 the   *)
(* squared norm; an integer h times it is [chi * h, g2].  A quantity times *)
(* 1 / (sigma * sqrt(d)) is tagged with sigma and d.                       *)

Scal(c, q) == [chi |-> c, g2 |-> q]
MulS(s, h) == Scal(s.chi * h, s.g2)

\* 1 / (self.sigma * np.sqrt(self.d)) * m
Scaled(sigma, d, m) == [sigma |-> sigma, d |-> d, m |-> m]

-----------------------------------------------------------------------------
(* The structured transform of one block. *)

\* Fastfood.create_gaussian_iid_matrix(b, g, p): the dense d x d matrix
create_gaussian_iid_matrix(b, g, p) ==
    LET HB == hadamard(Diag(b))
        GP == Take(Diag(g), p)
        HGP == hadamard(GP)
    IN  MatMul(HGP, HB)

\* Fastfood.create_approximation_matrix(self, S, HGPHB)
create_approximation_matrix(sigma, d, S, HGPHB) ==
    Scaled(sigma, d,
           Array([i \in 1 .. Len(S) |->
               Array([c \in 1 .. NumCols(HGPHB) |-> MulS(S[i], HGPHB[i][c])])]))

\* V . x for the dense V of create_approximation_matrix and an integer
\* vector x (safe_sparse_dot in Fastfood.phi, one column of X.T)
dense_apply(V, x) ==
    Scaled(V.sigma, V.d,
           Array([i \in 1 .. Len(V.m) |->
               Scal(SumTo([j \in 1 .. Len(x) |-> V.m[i][j].chi * x[j]], Len(x)),
                    V.m[i][1].g2)]))

\* lines 627-628: result = np.take(result, p); result *= g
permute_then_scale(y, g, p) ==
    LET taken == Take(y, p)
    IN  Array([i \in 1 .. Len(taken) |-> taken[i] * g[i]])

\* Fastfood.create_gaussian_iid_matrix_fast(b, g, p, x)
create_gaussian_iid_matrix_fast(b, g, p, x) ==
    LET r1 == Array([i \in 1 .. Len(x) |-> b[i] * x[i]])
        r2 == approx_fourier_transformation(r1)
        r3 == permute_then_scale(r2, g, p)
    IN  approx_fourier_transformation(r3)

\* Fastfood.create_approximation_matrix_fast(self, S, x)
create_approximation_matrix_fast(sigma, d, S, x) ==
    Scaled(sigma, d, Array([i \in 1 .. Len(x) |-> MulS(S[i], x[i])]))

-----------------------------------------------------------------------------
(* The vectorized transform: B, G, S are k x d, P a list of k permutations, *)
(* X is r x d.                                                              *)

\* line 640, np.take(result, Perm, out=result): without an axis the indices
\* address the flattened array; the output is buffered, so the reads see
\* the array as it was before the call
take_flat(result, Perm) ==
    LET flat == Flatten(result)
    IN  Array([m \in 1 .. Len(Perm) |->
            Array([c \in 1 .. Len(Perm[m]) |-> flat[Perm[m][c] + 1]])])

\* Fastfood.create_gaussian_iid_matrix_fast_vectorized(B, G, P, X)
create_gaussian_iid_matrix_fast_vectorized(B, G, P, X) ==
    LET r == Len(X)
        k == Len(B)
        d == NumCols(B)
        \* np.multiply(B, X.reshape((1, r, 1, d))).reshape((r * k, d))
        r1 == Array([m \in 1 .. r * k |->
                 LET i == ((m - 1) \div k) + 1
                     j == ((m - 1) % k) + 1
                 IN  Array([c \in 1 .. d |-> B[j][c] * X[i][c]])])
        r2 == approx_fourier_transformation_multi_dim(r1)
        \* np.tile(P, (r, 1))
        Perm == Array([m \in 1 .. r * k |-> P[((m - 1) % k) + 1]])
        r3 == take_flat(r2, Perm)
        r4 == Reshape(Flatten(r3), r, k * d)
        ravelG == Flatten(G)
        r5 == Array([i \in 1 .. r |-> Array([c \in 1 .. k * d |-> ravelG[c] * r4[i][c]])])
        r6 == Reshape(Flatten(r5), k * r, d)
    IN  approx_fourier_transformation_multi_dim(r6)

\* Fastfood.create_approximation_matrix_fast_vectorized(self, S, V)
create_approximation_matrix_fast_vectorized(sigma, dd, S, V) ==
    LET cols == Len(S) * NumCols(S)
        rows == (Len(V) * NumCols(V)) \div cols
        V2 == Reshape(Flatten(V), rows, cols)
        ravelS == Flatten(S)
    IN  Scaled(sigma, dd,
               Array([i \in 1 .. rows |->
                   Array([c \in 1 .. cols |-> MulS(ravelS[c], V2[i][c])])]))

\* Fastfood.transform_fast, lines 770-778: per row, the single-row fast path
\* of every block, concatenated in block order
fast_row_loop(sigma, d, vectors, X_padded) ==
    Scaled(sigma, d,
           Array([i \in 1 .. Len(X_padded) |->
               Flatten([j \in 1 .. Len(vectors) |->
                   create_approximation_matrix_fast(sigma, d, vectors[j].S,
                       create_gaussian_iid_matrix_fast(vectors[j].B, vectors[j].G,
                           vectors[j].P, X_padded[i])).m])]))

-----------------------------------------------------------------------------
(* Random sources.  A RandomState is a state of a full-period congruential *)
(* generator; a draw advances the state and is computed from the new       *)
(* state.  An instance holds its own RandomState, or (random_state=None)   *)
(* numpy's module-level one.                                               *)

RngPeriod == 8

\* one step of the generator
rng_next(s) == (5 * s + 3) % RngPeriod

\* RandomState(seed)
rng_seed(seed) == seed % RngPeriod

None == [is_none |-> TRUE]
Some(v) == [is_none |-> FALSE, val |-> v]

\* sklearn.utils.check_random_state(random_state): None is the
\* module-level RandomState, an int seeds a new one
check_random_state(random_state) ==
    IF random_state.is_none THEN [src |-> "global"]
    ELSE [src |-> "own", state |-> rng_seed(random_state.val)]

\* The sources a method draws from: st.rng is self.rng, st.glob the
\* module-level RandomState.
RECURSIVE draw_own(_, _)
\* n raw draws from self.rng: [vals, st]
draw_own(st, n) ==
    IF n = 0 THEN [vals |-> <<>>, st |-> st]
    ELSE LET s == IF st.rng.src = "global" THEN rng_next(st.glob)
                  ELSE rng_next(st.rng.state)
             st1 == IF st.rng.src = "global" THEN [st EXCEPT !.glob = s]
                    ELSE [st EXCEPT !.rng.state = s]
             rest == draw_own(st1, n - 1)
         IN  [vals |-> <<s>> \o rest.vals, st |-> rest.st]

RECURSIVE draw_global(_, _)
\* n raw draws from the module-level RandomState: [vals, st]
draw_global(st, n) ==
    IF n = 0 THEN [vals |-> <<>>, st |-> st]
    ELSE LET s == rng_next(st.glob)
             rest == draw_global([st EXCEPT !.glob = s], n - 1)
         IN  [vals |-> <<s>> \o rest.vals, st |-> rest.st]

\* the values a raw draw stands for
GaussOf(s) == <<-2, 1, -1, 2>>[((s \div 2) % 4) + 1]
SignOf(s) == <<-1, 1>>[((s \div 2) % 2) + 1]
ChiOf(s) == 1 + (s % 3)
PhaseOf(s) == s % 4

\* Fastfood.random_gauss_vector: self.rng.normal(size=d)
random_gauss_vector(st, d) ==
    LET r == draw_own(st, d)
    IN  [val |-> Array([i \in 1 .. d |-> GaussOf(r.vals[i])]), st |-> r.st]

\* Fastfood.binary_vector: self.rng.choice([-1, 1], size=d)
binary_vector(st, d) ==
    LET r == draw_own(st, d)
    IN  [val |-> Array([i \in 1 .. d |-> SignOf(r.vals[i])]), st |-> r.st]

RECURSIVE shuffle(_, _, _)
\* RandomState.shuffle: for i = n-1 down to 1, swap x[i] and x[j] with
\* j drawn from 0 .. i; raws holds the d - 1 raw draws, i counts down
shuffle(x, raws, i) ==
    IF i = 0 THEN x
    ELSE LET j == raws[Len(x) - i] % (i + 1)
             y == [x EXCEPT ![i + 1] = x[j + 1], ![j + 1] = x[i + 1]]
         IN  shuffle(y, raws, i - 1)

\* Fastfood.permutation_matrix: self.rng.permutation(d)
permutation_matrix(st, d) ==
    LET r == draw_own(st, d - 1)
    IN  [val |-> shuffle(Array([i \in 1 .. d |-> i - 1]), r.vals, d - 1), st |-> r.st]

\* np.linalg.norm(g) ** 2
NormSq(g) == SumTo([i \in 1 .. Len(g) |-> g[i] * g[i]], Len(g))

\* Fastfood.scaling_vector_chi: chi.rvs(d, size=d) * (1 / norm(g)); chi.rvs
\* is given no random_state and draws from the module-level RandomState
scaling_vector_chi(st, d, g) ==
    LET r == draw_global(st, d)
    IN  [val |-> Array([i \in 1 .. d |-> Scal(ChiOf(r.vals[i]), NormSq(g))]), st |-> r.st]

\* a slip: the phase vector is drawn in either mode
uniform_vector_always(st, tradeoff, n) ==
    IF n < 0 THEN [val |-> None, st |-> st, ok |-> FALSE]
    ELSE LET r == draw_own(st, n)
         IN  [val |-> Some(Array([i \in 1 .. n |-> PhaseOf(r.vals[i])])),
              st |-> r.st, ok |-> TRUE]

\* Fastfood.uniform_vector with self.n = n: [val, st, ok].  A negative size
\* makes self.rng.uniform raise ValueError before anything is drawn (ok is
\* FALSE).
uniform_vector(st, tradeoff, n) ==
    IF tradeoff # "accuracy"
    THEN IF n < 0 THEN [val |-> None, st |-> st, ok |-> FALSE]
         ELSE LET r == draw_own(st, n)
              IN  [val |-> Some(Array([i \in 1 .. n |-> PhaseOf(r.vals[i])])),
                   st |-> r.st, ok |-> TRUE]
    ELSE [val |-> None, st |-> st, ok |-> TRUE]

\* Fastfood.create_vectors: G, B, P, S in this order
create_vectors(st, d) ==
    LET G == random_gauss_vector(st, d)
        B == binary_vector(G.st, d)
        P == permutation_matrix(B.st, d)
        S == scaling_vector_chi(P.st, d, G.val)
    IN  [val |-> [B |-> B.val, G |-> G.val, P |-> P.val, S |-> S.val], st |-> S.st]

RECURSIVE create_vectors_times(_, _, _)
\* line 695: [self.create_vectors() for _ in range(self.times_to_stack_v)]
create_vectors_times(st, d, k) ==
    IF k <= 0 THEN [val |-> <<>>, st |-> st]
    ELSE LET v == create_vectors(st, d)
             rest == create_vectors_times(v.st, d, k - 1)
         IN  [val |-> <<v.val>> \o rest.val, st |-> rest.st]

-----------------------------------------------------------------------------
(* The estimator instance. *)

\* the attributes the fitting calls assign
PlanAttributes ==
    {"d", "n", "times_to_stack_v", "number_of_features_to_pad_with_zeros"}

\* An instance no fitting call has assigned to.  assigned is the set of
\* attributes that exist on the instance (set says times_to_stack_v does);
\* the value held for an attribute that is not assigned is never read.
Unfitted ==
    [set |-> FALSE, assigned |-> {},
     d |-> 0, n |-> 0, times_to_stack_v |-> 0,
     number_of_features_to_pad_with_zeros |-> 0,
     vectors |-> <<>>, U |-> None,
     G |-> <<>>, B |-> <<>>, P |-> <<>>, S |-> <<>>]

\* Fastfood.__init__
init(sigma, n_components, tradeoff, random_state) ==
    [sigma |-> sigma,
     n_components |-> n_components,
     random_state |-> random_state,
     rng |-> check_random_state(random_state),
     tradeoff_less_mem_or_higher_accuracy |-> tradeoff,
     fitted |-> Unfitted]

\* lines 691-698 of Fastfood.fit once the blocks vs and the phase vector U
\* are drawn: the assignments.  Line 698 raises after lines 691-696 have
\* assigned.
fit_assign(self, d_orig, d, n, k, vs, U) ==
    IF U.ok
    THEN [ret |-> Return("self"),
          self |-> [self EXCEPT
                      !.rng = U.st.rng,
                      !.fitted = [@ EXCEPT
                          !.set = TRUE,
                          !.assigned = @ \cup PlanAttributes \cup {"vectors", "U"},
                          !.d = d, !.n = n,
                          !.times_to_stack_v = k,
                          !.number_of_features_to_pad_with_zeros = d - d_orig,
                          !.vectors = vs.val,
                          !.U = U.val]],
          glob |-> U.st.glob]
    ELSE [ret |-> Raise("ValueError"),
          self |-> [self EXCEPT
                      !.rng = vs.st.rng,
                      !.fitted = [@ EXCEPT
                          !.set = TRUE,
                          !.assigned = @ \cup PlanAttributes \cup {"vectors"},
                          !.d = d, !.n = n,
                          !.times_to_stack_v = k,
                          !.number_of_features_to_pad_with_zeros = d - d_orig,
                          !.vectors = vs.val]],
          glob |-> vs.st.glob]

\* line 698 of Fastfood.fit: self.U = self.uniform_vector(), drawn after the
\* blocks vs with self.n = n
fit_phase(self, d_orig, d, n, k, vs) ==
    fit_assign(self, d_orig, d, n, k, vs,
               uniform_vector(vs.st, self.tradeoff_less_mem_or_higher_accuracy, n))

\* lines 695-696 of Fastfood.fit: the blocks of the plan (d, n, k)
fit_blocks(self, glob, d_orig, d, n, k) ==
    fit_phase(self, d_orig, d, n, k,
              create_vectors_times([rng |-> self.rng, glob |-> glob], d, k))

\* line 691 of Fastfood.fit: it raises before it assigns
fit_plan(self, glob, d_orig, plan) ==
    IF plan.kind = "raise"
    THEN [ret |-> plan, self |-> self, glob |-> glob]
    ELSE fit_blocks(self, glob, d_orig, plan.val[1], plan.val[2], plan.val[3])

\* a slip: the row count X.shape[0] is read
shape_0(X) == Len(X)

\* line 689 of Fastfood.fit: d_orig = X.shape[1], all that fit reads of X
shape_1(X) == NumCols(X)

\* Fastfood.fit(self, X): [ret, self, glob], the outcome, the instance after
\* the call and the module-level RandomState after it
fit(self, glob, X) ==
    fit_plan(self, glob, shape_1(X),
             enforce_dimensionality_constraints(shape_1(X), self.n_components))

\* self.rng.normal(size=(k, d)), line 710
normal_matrix(st, k, d) ==
    LET r == draw_own(st, k * d)
    IN  [val |-> Reshape([i \in 1 .. k * d |-> GaussOf(r.vals[i])], k, d), st |-> r.st]

\* self.rng.choice([-1, 1], size=(k, d)), line 711
choice_matrix(st, k, d) ==
    LET r == draw_own(st, k * d)
    IN  [val |-> Reshape([i \in 1 .. k * d |-> SignOf(r.vals[i])], k, d), st |-> r.st]

RECURSIVE permutations(_, _, _)
\* [self.rng.permutation(self.d) for _ in range(k)], line 712
permutations(st, d, k) ==
    IF k <= 0 THEN [val |-> <<>>, st |-> st]
    ELSE LET p == permutation_matrix(st, d)
             rest == permutations(p.st, d, k - 1)
         IN  [val |-> <<p.val>> \o rest.val, st |-> rest.st]

\* lines 713-714: (1 / norm(G, axis=1))[:, newaxis] * chi.rvs(d, size=(k, d));
\* chi.rvs is given no random_state and draws from the module-level
\* RandomState
chi_matrix(st, k, d, G) ==
    LET r == draw_global(st, k * d)
    IN  [val |-> Array([j \in 1 .. k |-> Array([c \in 1 .. d |->
                    Scal(ChiOf(r.vals[(j - 1) * d + c]), NormSq(G[j]))])]),
         st |-> r.st]

\* the attributes fit_vectorized assigns at lines 710-714
BlockAttributes == {"G", "B", "P", "S"}

\* lines 706-716 of Fastfood.fit_vectorized once everything is drawn: the
\* assignments
fit_vectorized_assign(self, d_orig, d, n, k, G, B, P, S, U) ==
    [ret |-> IF U.ok THEN Return("self") ELSE Raise("ValueError"),
     self |-> [self EXCEPT
                 !.rng = U.st.rng,
                 !.fitted = [@ EXCEPT
                     !.set = TRUE,
                     !.assigned = @ \cup PlanAttributes \cup BlockAttributes
                                    \cup (IF U.ok THEN {"U"} ELSE {}),
                     !.d = d, !.n = n,
                     !.times_to_stack_v = k,
                     !.number_of_features_to_pad_with_zeros = d - d_orig,
                     !.G = G.val, !.B = B.val, !.P = P.val, !.S = S.val,
                     !.U = IF U.ok THEN U.val ELSE @]],
     glob |-> U.st.glob]

\* line 716
fit_vectorized_U(self, d_orig, d, n, k, G, B, P, S) ==
    fit_vectorized_assign(self, d_orig, d, n, k, G, B, P, S,
        uniform_vector(S.st, self.tradeoff_less_mem_or_higher_accuracy, n))

\* lines 713-714
fit_vectorized_S(self, d_orig, d, n, k, G, B, P) ==
    fit_vectorized_U(self, d_orig, d, n, k, G, B, P, chi_matrix(P.st, k, d, G.val))

\* line 712
fit_vectorized_P(self, d_orig, d, n, k, G, B) ==
    fit_vectorized_S(self, d_orig, d, n, k, G, B, permutations(B.st, d, k))

\* line 711
fit_vectorized_B(self, d_orig, d, n, k, G) ==
    fit_vectorized_P(self, d_orig, d, n, k, G, choice_matrix(G.st, k, d))

\* lines 706-710: the plan raises before anything is assigned; a negative k
\* makes self.rng.normal raise after the plan is assigned
fit_vectorized_plan(self, glob, d_orig, plan) ==
    IF plan.kind = "raise"
    THEN [ret |-> plan, self |-> self, glob |-> glob]
    ELSE IF plan.val[3] < 0
    THEN [ret |-> Raise("ValueError"),
          self |-> [self EXCEPT
                      !.fitted = [@ EXCEPT
                          !.set = TRUE,
                          !.assigned = @ \cup PlanAttributes,
                          !.d = plan.val[1], !.n = plan.val[2],
                          !.times_to_stack_v = plan.val[3],
                          !.number_of_features_to_pad_with_zeros = plan.val[1] - d_orig]],
          glob |-> glob]
    ELSE fit_vectorized_B(self, d_orig, plan.val[1], plan.val[2], plan.val[3],
             normal_matrix([rng |-> self.rng, glob |-> glob], plan.val[3], plan.val[1]))

\* Fastfood.fit_vectorized(self, X): [ret, self, glob]
fit_vectorized(self, glob, X) ==
    fit_vectorized_plan(self, glob, shape_1(X),
        enforce_dimensionality_constraints(shape_1(X), self.n_components))

\* a slip: every row is padded up to the working dimension d
pad_with_zeros_to_d(self, X) ==
    Array([i \in 1 .. Len(X) |->
        X[i] \o [c \in 1 .. self.fitted.d - Len(X[i]) |-> 0]])

\* Fastfood.pad_with_zeros
pad_with_zeros(self, X) ==
    Array([i \in 1 .. Len(X) |->
        X[i] \o [c \in 1 .. self.fitted.number_of_features_to_pad_with_zeros |-> 0]])

\* Fastfood.phi(V, X): V is the stacked n x d matrix, X the padded rows;
\* (1 / sqrt(n)) * vstack([cos(V X.T), sin(V X.T)]), a 2n x r matrix
phi(V, X) ==
    IF NumCols(V.m) # NumCols(X)
    THEN Raise("ValueError")
    ELSE LET n == Len(V.m)
             X_mapped == Transpose(Array([c \in 1 .. Len(X) |-> dense_apply(V, X[c]).m]))
         IN  Return([sigma |-> V.sigma, d |-> V.d, norm |-> n,
                     m |-> Array([i \in 1 .. 2 * n |-> Array([c \in 1 .. Len(X) |->
                              IF i <= n THEN [f |-> "cos", arg |-> X_mapped[i][c]]
                              ELSE [f |-> "sin", arg |-> X_mapped[i - n][c]]])])])

\* a slip: transform draws the blocks again
transform_effect_redraw(self, glob, X) ==
    IF self.fitted.set
    THEN LET vs == create_vectors_times([rng |-> self.rng, glob |-> glob],
                                        self.fitted.d, self.fitted.times_to_stack_v)
         IN  [self |-> [self EXCEPT !.rng = vs.st.rng, !.fitted.vectors = vs.val],
              glob |-> vs.st.glob, X |-> X]
    ELSE [self |-> self, glob |-> glob, X |-> X]

\* what Fastfood.transform leaves behind: np.diag, np.take, fht2, np.pad,
\* np.vstack and safe_sparse_dot all return new arrays, and no attribute is
\* assigned
transform_effect(self, glob, X) == [self |-> self, glob |-> glob, X |-> X]

\* a slip: an instance without fitted attributes is reported like a shape
\* mismatch
missing_attribute_as_value_error(self) == Raise("ValueError")

\* line 756 on an instance fit never ran on: self.times_to_stack_v does not
\* exist
missing_attribute(self) == Raise("AttributeError")

\* lines 758-760 of Fastfood.transform: the matrix v of block i (1-based)
transform_block(self, i) ==
    create_approximation_matrix(
        self.sigma, self.fitted.d, self.fitted.vectors[i].S,
        create_gaussian_iid_matrix(self.fitted.vectors[i].B,
                                   self.fitted.vectors[i].G,
                                   self.fitted.vectors[i].P)).m

\* the .T of line 764 on the outcome of phi
transposed(mapped) ==
    IF mapped.kind = "raise" THEN mapped
    ELSE Return([mapped.val EXCEPT !.m = Transpose(@)])

\* lines 761-764 of Fastfood.transform on the list to_stack: np.vstack (it
\* raises on an empty list), pad_with_zeros, phi and .T
transform_stacked(self, to_stack, X) ==
    IF to_stack = <<>> THEN Raise("ValueError")
    ELSE transposed(phi(Scaled(self.sigma, self.fitted.d, Flatten(to_stack)),
                        pad_with_zeros(self, X)))

\* Fastfood.transform(self, X): the outcome of the call
transform(self, X) ==
    IF ~self.fitted.set
    THEN missing_attribute(self)
    ELSE IF self.fitted.times_to_stack_v <= 0
    THEN \* the loop runs no pass and np.vstack([]) raises
         Raise("ValueError")
    ELSE IF "vectors" \notin self.fitted.assigned
    THEN Raise("AttributeError")
    ELSE IF Len(self.fitted.vectors) < self.fitted.times_to_stack_v
    THEN Raise("IndexError")
    ELSE \* V_stacked has as many columns as the vectors of self.vectors are
         \* long (every block is square), so the shape test of
         \* safe_sparse_dot in phi is decided before V_stacked is built
         IF NumCols(pad_with_zeros(self, X)) # Len(self.fitted.vectors[1].B)
         THEN Raise("ValueError")
         ELSE transform_stacked(
                  self,
                  Array([i \in 1 .. self.fitted.times_to_stack_v |->
                             transform_block(self, i)]),
                  X)

-----------------------------------------------------------------------------
(* Specification of one block: the dense and the fast path on the same     *)
(* (B, G, P, S) and the same padded row x.                                 *)

BlockDims == {1, 2, 4}
SigmaVals == {2}
BVals == {-1, 1}
GVals == {1, 2}

\* the vectors of length d over the values of V
Vectors(d, V) == [1 .. d -> V]

\* the permutations of 0 .. d-1, as vectors of length d
PermVectors(d) ==
    {p \in [1 .. d -> 0 .. d - 1] : \A i, j \in 1 .. d : p[i] = p[j] => i = j}

\* the rows x of length d: the unit vectors and the all-ones vector (the
\* transform is linear in x)
XVectors(d) ==
    {[i \in 1 .. d |-> IF i = e THEN 1 ELSE 0] : e \in 1 .. d}
        \cup {[i \in 1 .. d |-> 1]}

\* the values of S of a d-vector: all equal, or all different
SVectors(d) == {[i \in 1 .. d |-> Scal(1, 1)], [i \in 1 .. d |-> Scal(i, 1)]}

InitBlock ==
    /\ \E d \in BlockDims :
         call \in {[fn |-> "block", sigma |-> sigma, d |-> d,
                    b |-> b, g |-> g, p |-> p, S |-> S, x |-> x,
                    dense |-> Pending, fast |-> Pending] :
                      sigma \in SigmaVals, b \in Vectors(d, BVals),
                      g \in Vectors(d, GVals), p \in PermVectors(d),
                      S \in SVectors(d), x \in XVectors(d)}
    /\ objs = <<>>
    /\ np_random = 0
    /\ last = NoOp
    /\ fits = <<>>

\* the reference path of Fastfood.transform, lines 757-759 and 764, on one
\* block and one row
DensePath ==
    /\ call.fn = "block"
    /\ call.dense = Pending
    /\ LET HGPHB == create_gaussian_iid_matrix(call.b, call.g, call.p)
           v == create_approximation_matrix(call.sigma, call.d, call.S, HGPHB)
       IN  call' = [call EXCEPT !.dense = Return(dense_apply(v, call.x))]
    /\ UNCHANGED <<objs, np_random, last, fits>>

\* the fast path of Fastfood.transform_fast, lines 774-775, on one block and
\* one row
FastPath ==
    /\ call.fn = "block"
    /\ call.fast = Pending
    /\ LET HGPHBx == create_gaussian_iid_matrix_fast(call.b, call.g, call.p, call.x)
           v == create_approximation_matrix_fast(call.sigma, call.d, call.S, HGPHBx)
       IN  call' = [call EXCEPT !.fast = Return(v)]
    /\ UNCHANGED <<objs, np_random, last, fits>>

NextBlock == DensePath \/ FastPath

SpecBlock == InitBlock /\ [][NextBlock]_vars

RECURSIVE PopCount(_)
PopCount(n) == IF n = 0 THEN 0 ELSE (n % 2) + PopCount(n \div 2)

\* the order-d unnormalized Hadamard matrix, H[i][j] = (-1)^popcount(i & j)
HadamardMatrix(d) ==
    [i \in 1 .. d |-> [j \in 1 .. d |->
        IF PopCount(BitAnd(i - 1, j - 1)) % 2 = 0 THEN 1 ELSE -1]]

MatVec(M, x) ==
    [i \in 1 .. Len(M) |-> SumTo([j \in 1 .. Len(x) |-> M[i][j] * x[j]], Len(x))]

\* V . x for V = (1/(sigma sqrt d)) diag(S) H diag(G) Pi_P H diag(B), with
\* (Pi_P y)[i] = y[P[i]]
OperatorVx(sigma, d, b, g, p, S, x) ==
    LET H == HadamardMatrix(d)
        y1 == MatVec(H, [i \in 1 .. d |-> b[i] * x[i]])
        y2 == [i \in 1 .. d |-> y1[p[i] + 1]]
        y3 == MatVec(H, [i \in 1 .. d |-> g[i] * y2[i]])
    IN  Scaled(sigma, d, [i \in 1 .. d |-> MulS(S[i], y3[i])])

BlockDone == call.fn = "block" /\ call.dense # Pending /\ call.fast # Pending

\* C1: on every block (B, G, P, S), sigma and power-of-two d, the dense
\* reference path and the fast path give the same vector for the same padded
\* row x, and both give V . x for V = (1/(sigma sqrt d)) diag(S) H diag(G)
\* Pi_P H diag(B).
C1_DenseEqualsFast ==
    BlockDone =>
        /\ call.dense.val = call.fast.val
        /\ call.dense.val = OperatorVx(call.sigma, call.d, call.b, call.g,
                                       call.p, call.S, call.x)
        /\ call.fast.val = OperatorVx(call.sigma, call.d, call.b, call.g,
                                      call.p, call.S, call.x)

\* the fast path alone computes V . x
FastIsOperatorVx ==
    (call.fn = "block" /\ call.fast # Pending) =>
        call.fast.val = OperatorVx(call.sigma, call.d, call.b, call.g,
                                   call.p, call.S, call.x)

\* the dense path computes diag(S) H Pi_P diag(G) H diag(B) x: the entry of G
\* is permuted together with the coordinate
DenseIsPermutedG ==
    (call.fn = "block" /\ call.dense # Pending) =>
        call.dense.val = OperatorVx(call.sigma, call.d, call.b,
                                    [i \in 1 .. call.d |-> call.g[call.p[i] + 1]],
                                    call.p, call.S, call.x)

-----------------------------------------------------------------------------
(* Specification of the batch: the vectorized functions and the loop over  *)
(* rows and blocks on the same k blocks and the same r padded rows.        *)

BatchDims == {1, 2}
MaxBlocks == 2
MaxRows == 2
XVals == {0, 1}

\* the rows x cols matrices over the values of V
Matrices(rows, cols, V) == [1 .. rows -> [1 .. cols -> V]]

InitBatch ==
    /\ \E d \in BatchDims, k \in 1 .. MaxBlocks, r \in 1 .. MaxRows :
         call \in {[fn |-> "batch", sigma |-> sigma, d |-> d,
                    B |-> B, G |-> G, P |-> P,
                    S |-> [j \in 1 .. k |-> [c \in 1 .. d |-> Scal((j - 1) * d + c, 1)]],
                    X |-> X,
                    vectorized |-> Pending, loop |-> Pending] :
                      sigma \in SigmaVals, B \in Matrices(k, d, BVals),
                      G \in Matrices(k, d, GVals),
                      P \in [1 .. k -> PermVectors(d)],
                      X \in Matrices(r, d, XVals)}
    /\ objs = <<>>
    /\ np_random = 0
    /\ last = NoOp
    /\ fits = <<>>

\* Fastfood.transform_fast_vectorized, lines 741-742
VectorizedPath ==
    /\ call.fn = "batch"
    /\ call.vectorized = Pending
    /\ LET HGPHBX == create_gaussian_iid_matrix_fast_vectorized(
                         call.B, call.G, call.P, call.X)
           VX == create_approximation_matrix_fast_vectorized(
                     call.sigma, call.d, call.S, HGPHBX)
       IN  call' = [call EXCEPT !.vectorized = Return(VX)]
    /\ UNCHANGED <<objs, np_random, last, fits>>

\* Fastfood.transform_fast, lines 770-778
RowLoopPath ==
    /\ call.fn = "batch"
    /\ call.loop = Pending
    /\ LET vectors == [j \in 1 .. Len(call.B) |->
                         [B |-> call.B[j], G |-> call.G[j],
                          P |-> call.P[j], S |-> call.S[j]]]
       IN  call' = [call EXCEPT
                      !.loop = Return(fast_row_loop(call.sigma, call.d, vectors, call.X))]
    /\ UNCHANGED <<objs, np_random, last, fits>>

NextBatch == VectorizedPath \/ RowLoopPath

SpecBatch == InitBatch /\ [][NextBatch]_vars

BatchDone == call.fn = "batch" /\ call.vectorized # Pending /\ call.loop # Pending

\* C2: for r >= 1 rows and k >= 1 blocks, row i of the vectorized result is
\* the concatenation, in block order, of the single-row fast-path results
\* for row i: the permutation of block j acts on the (row i, block j) vector.
C2_VectorizedEqualsRowLoop ==
    BatchDone => call.vectorized.val = call.loop.val

\* with one row and one block the two agree
OneRowOneBlockAgree ==
    (BatchDone /\ Len(call.X) = 1 /\ Len(call.B) = 1) =>
        call.vectorized.val = call.loop.val

\* what line 640 computes: every (row, block) vector is read from the first
\* d entries of the flattened array, the (row 1, block 1) vector
VectorizedReadsFirstRow ==
    (call.fn = "batch" /\ call.vectorized # Pending) =>
        LET k == Len(call.B)
            first == approx_fourier_transformation(
                         [c \in 1 .. call.d |-> call.B[1][c] * call.X[1][c]])
        IN  call.vectorized.val.m =
              [i \in 1 .. Len(call.X) |->
                 Flatten([j \in 1 .. k |->
                    LET y == permute_then_scale(first, call.G[j], call.P[j])
                        h == approx_fourier_transformation(y)
                    IN  [c \in 1 .. call.d |-> MulS(call.S[j][c], h[c])]])]

-----------------------------------------------------------------------------
(* Specification of one instance: constructed with any configuration, then *)
(* fitted and transformed in any order.                                    *)

MaxComponents == 2
MaxSeed == 0
MaxCols == 3
MaxRowsX == 2

Modes == {"accuracy", "mem"}
Seeds == {None} \cup {Some(s) : s \in 0 .. MaxSeed}
RngStates == 0 .. RngPeriod - 1

\* the input matrices: one of every shape, of zeros and ones
InputMatrices ==
    {[i \in 1 .. r |-> [c \in 1 .. cols |-> (i + c) % 2]] :
        r \in 1 .. MaxRowsX, cols \in 1 .. MaxCols}

Configurations ==
    {init(sigma, n_components, tradeoff, random_state) :
        sigma \in SigmaVals, n_components \in 1 .. MaxComponents,
        tradeoff \in Modes, random_state \in Seeds}

Init ==
    /\ call = NoCall
    /\ objs \in [{1} -> Configurations]
    /\ np_random \in RngStates
    /\ last = NoOp
    /\ fits = <<>>

\* the effect of a call self.fit(X) on instance i
FitCall(i, X) ==
    LET r == fit(objs[i], np_random, X)
    IN  /\ objs' = [objs EXCEPT ![i] = r.self]
        /\ np_random' = r.glob
        /\ last' = [op |-> "fit", inst |-> i, cols |-> NumCols(X), ret |-> r.ret]

\* a call self.fit(X) on instance i
Fit(i, X) ==
    /\ FitCall(i, X)
    /\ UNCHANGED <<call, fits>>

\* a call self.transform(X) on instance i
Transform(i, X) ==
    LET eff == transform_effect(objs[i], np_random, X)
    IN  /\ objs' = [objs EXCEPT ![i] = eff.self]
        /\ np_random' = eff.glob
        /\ last' = [op |-> "transform", inst |-> i, X |-> X, X_after |-> eff.X,
                    ret |-> transform(objs[i], X)]
        /\ UNCHANGED <<call, fits>>

\* fit reads X.shape[1] alone: one training matrix per column count
FitInputs == {X \in InputMatrices : Len(X) = 1}

Next ==
    \/ \E i \in DOMAIN objs, X \in FitInputs : Fit(i, X)
    \/ \E i \in DOMAIN objs, X \in InputMatrices : Transform(i, X)

Spec == Init /\ [][Next]_vars

\* the condition a column-count mismatch ends in: numpy's ValueError for
\* operands whose shapes are not aligned
ShapeMismatch == Raise("ValueError")

TransformedFitted ==
    /\ last.op = "transform"
    /\ objs[last.inst].fitted.set

\* the column count seen by the last fit
DOrig(self) == self.fitted.d - self.fitted.number_of_features_to_pad_with_zeros

\* C5: after a fit, transform(X) on an X with the fitted column count
\* returns rows(X) rows and 2n columns in full mode ('accuracy'), n columns
\* in reduced mode.
C5_OutputWidth ==
    (TransformedFitted /\ NumCols(last.X) = DOrig(objs[last.inst])) =>
        LET self == objs[last.inst]
        IN  /\ last.ret.kind = "return"
            /\ Len(last.ret.val.m) = Len(last.X)
            /\ NumCols(last.ret.val.m) =
                 IF self.tradeoff_less_mem_or_higher_accuracy = "accuracy"
                 THEN 2 * self.fitted.n ELSE self.fitted.n

\* what transform returns in either mode: rows(X) rows and 2n columns
OutputWidthIsTwiceN ==
    (TransformedFitted /\ NumCols(last.X) = DOrig(objs[last.inst])) =>
        /\ last.ret.kind = "return"
        /\ Len(last.ret.val.m) = Len(last.X)
        /\ NumCols(last.ret.val.m) = 2 * objs[last.inst].fitted.n

\* C7: a fit step of an instance draws every block (B, G, P, S) from
\* self.rng alone: with a RandomState of its own the blocks are the ones the
\* seeded source yields in draw order, and the module-level RandomState, like
\* all state other than self.rng, is left as it was.
C7_BlocksFromOwnSource ==
    [][(last'.op = "fit" /\ objs[last'.inst].rng.src = "own")
          => np_random' = np_random]_vars

C9_ColumnMismatchFails ==
    (TransformedFitted /\ NumCols(last.X) # DOrig(objs[last.inst])) =>
        last.ret = ShapeMismatch

C9_Witness ==
    /\ TransformedFitted
    /\ NumCols(last.X) < DOrig(objs[last.inst])
    /\ last.ret = ShapeMismatch

TransformedUnfitted ==
    /\ last.op = "transform"
    /\ ~objs[last.inst].fitted.set

RECURSIVE RngAfter(_, _)
\* the state of a RandomState in state s after j more draws
RngAfter(s, j) == IF j = 0 THEN s ELSE RngAfter(rng_next(s), j - 1)

\* the state of the source self.rng stands for, given both sources
OwnState(rng, glob) == IF rng.src = "own" THEN rng.state ELSE glob

\* the fitted parameters f and the sources (rng, glob) after a fit agree
\* with a phase vector drawn in reduced mode alone, n values long, from
\* self.rng in the state s the k blocks left it in, the sources being
\* (rng0, glob0) after the blocks
PhaseVectorAfterBlocks(tradeoff, f, rng, glob, rng0, glob0) ==
    IF tradeoff = "accuracy"
    THEN /\ f.U = None
         /\ rng = rng0
         /\ glob = glob0
    ELSE /\ ~f.U.is_none
         /\ Len(f.U.val) = f.n
         /\ \A j \in 1 .. f.n :
               f.U.val[j] = PhaseOf(RngAfter(OwnState(rng0, glob0), j))
         /\ OwnState(rng, glob) = RngAfter(OwnState(rng0, glob0), f.n)

\* the same, the k blocks being drawn from the sources (rng0, glob0)
PhaseVectorAfterFit(tradeoff, f, rng, glob, blocks) ==
    /\ f.vectors = blocks.val
    /\ PhaseVectorAfterBlocks(tradeoff, f, rng, glob, blocks.st.rng, blocks.st.glob)

\* C15: a fit that returns leaves a phase vector U exactly in reduced mode:
\* there U has length n, the realized width k * d of that same call, and
\* its values are the draws that follow those of the k blocks; in full
\* mode ('accuracy') U is None and no draw follows those of the blocks.
C15_PhaseVectorInReducedMode ==
    [][(last'.op = "fit" /\ last'.ret.kind = "return") =>
         /\ "U" \in objs'[last'.inst].fitted.assigned
         /\ objs'[last'.inst].fitted.n =
                objs'[last'.inst].fitted.times_to_stack_v * objs'[last'.inst].fitted.d
         /\ objs'[last'.inst].fitted.n >= objs[last'.inst].n_components
         /\ PhaseVectorAfterFit(
                objs[last'.inst].tradeoff_less_mem_or_higher_accuracy,
                objs'[last'.inst].fitted, objs'[last'.inst].rng, np_random',
                create_vectors_times(
                    [rng |-> objs[last'.inst].rng, glob |-> np_random],
                    objs'[last'.inst].fitted.d,
                    objs'[last'.inst].fitted.times_to_stack_v))]_vars

C15_Witness ==
    /\ last.op = "fit"
    /\ last.ret.kind = "return"
    /\ objs[last.inst].tradeoff_less_mem_or_higher_accuracy # "accuracy"
    /\ ~objs[last.inst].fitted.U.is_none
    /\ Len(objs[last.inst].fitted.U.val) = objs[last.inst].fitted.n
    /\ objs[last.inst].fitted.n > objs[last.inst].n_components

-----------------------------------------------------------------------------
(* Specification of two instances constructed with the same arguments, so  *)
(* with the same seed, and fitted in any order; every completed fit is     *)
(* recorded with the fitted parameters it left.                            *)

MaxFits == 2

InitPair ==
    /\ call = NoCall
    /\ \E cfg \in Configurations : objs = [i \in {1, 2} |-> cfg]
    /\ np_random \in RngStates
    /\ last = NoOp
    /\ fits = <<>>

\* a call self.fit(X) on instance i, recorded
RecordedFit(i, X) ==
    /\ Len(fits) < MaxFits
    /\ FitCall(i, X)
    /\ fits' = Append(fits, [inst |-> i, cols |-> NumCols(X), fitted |-> objs'[i].fitted])
    /\ UNCHANGED call

NextPair == \E i \in DOMAIN objs, X \in FitInputs : RecordedFit(i, X)

SpecPair == InitPair /\ [][NextPair]_vars

Seeded == \A i \in DOMAIN objs : ~objs[i].random_state.is_none

\* C6: with the same seed and the same column count, any two fits leave
\* identical fitted parameters (d, n, k, pad width, every block's B, G, P, S,
\* and the phase vector), be they fits of two instances or of one.
C6_SameSeedSameParameters ==
    Seeded =>
        \A a, b \in 1 .. Len(fits) :
            fits[a].cols = fits[b].cols => fits[a].fitted = fits[b].fitted

\* the parameters of a fit with every entry of S left out
WithoutS(f) ==
    [f EXCEPT !.vectors = [j \in 1 .. Len(f.vectors) |->
                             [B |-> f.vectors[j].B, G |-> f.vectors[j].G,
                              P |-> f.vectors[j].P]]]

\* what does hold: the first fits of two instances with the same seed and
\* column count agree on everything but S
FirstFitsAgreeButForS ==
    (Seeded /\ Len(fits) = 2 /\ fits[1].inst # fits[2].inst
        /\ fits[1].cols = fits[2].cols) =>
        WithoutS(fits[1].fitted) = WithoutS(fits[2].fitted)

-----------------------------------------------------------------------------
(* Specification of the planner as a function of its two arguments. *)

MaxPlanD == 16
MaxPlanN == 100

InitPlan ==
    /\ call \in {[fn |-> "enforce_dimensionality_constraints",
                  args |-> <<d, n>>, ret |-> Pending] :
                    d \in 0 .. MaxPlanD, n \in 0 .. MaxPlanN}
    /\ objs = <<>>
    /\ np_random = 0
    /\ last = NoOp
    /\ fits = <<>>

PlanCall ==
    /\ call.fn = "enforce_dimensionality_constraints"
    /\ call.ret = Pending
    /\ call' = [call EXCEPT
                  !.ret = enforce_dimensionality_constraints(call.args[1], call.args[2])]
    /\ UNCHANGED <<objs, np_random, last, fits>>

NextPlan == PlanCall

SpecPlan == InitPlan /\ [][NextPlan]_vars

PlanDone == call.fn = "enforce_dimensionality_constraints" /\ call.ret.kind = "return"

RECURSIVE IsPow2(_)
\* m is 1, or twice a power of two
IsPow2(m) == m = 1 \/ (m > 1 /\ m % 2 = 0 /\ IsPow2(m \div 2))

\* C3: for d_orig >= 1 and n0 >= 1 the planner returns a d that is a power
\* of two, is >= d_orig, and no smaller power of two is >= d_orig; so d equals
\* d_orig when d_orig is a power of two (d_orig = 1 included).
C3_SmallestPowerOfTwo ==
    (PlanDone /\ call.args[1] >= 1 /\ call.args[2] >= 1) =>
        LET d_orig == call.args[1]
            d == call.ret.val[1]
        IN  /\ IsPow2(d)
            /\ d >= d_orig
            /\ \A m \in d_orig .. d : IsPow2(m) => m = d
            /\ (IsPow2(d_orig) => d = d_orig)

C3_Witness ==
    /\ PlanDone
    /\ call.args = <<10, 100>>
    /\ call.ret.val[1] = 16

\* C4: for d_orig >= 1 and n0 >= 1 the planner returns k = ceil(n0 / d) and
\* n = k * d, so n is a multiple of d, n >= n0, and n = n0 exactly when d
\* divides n0; (10, 100) gives (16, 112, 7) and (16, 16) gives (16, 16, 1).
C4_StackCount ==
    (PlanDone /\ call.args[1] >= 1 /\ call.args[2] >= 1) =>
        LET n0 == call.args[2]
            d == call.ret.val[1]
            n == call.ret.val[2]
            k == call.ret.val[3]
        IN  /\ k * d >= n0 /\ (k - 1) * d < n0
            /\ n = k * d
            /\ n % d = 0
            /\ n >= n0
            /\ (n = n0 <=> n0 % d = 0)
            /\ (call.args = <<10, 100>> => call.ret.val = <<16, 112, 7>>)
            /\ (call.args = <<16, 16>> => call.ret.val = <<16, 16, 1>>)

C4_Witness ==
    /\ PlanDone
    /\ call.args = <<10, 100>>
    /\ call.ret.val = <<16, 112, 7>>

-----------------------------------------------------------------------------
(* Specification of one instance constructed with any arguments, valid or  *)
(* not (the constructor checks nothing), and fitted and transformed on     *)
(* matrices of any width, none included.                                   *)

AnySigma == {-1, 0} \cup SigmaVals
AnyComponents == {-1, 0} \cup (1 .. MaxComponents)

AnyConfigurations ==
    {init(sigma, n_components, tradeoff, random_state) :
        sigma \in AnySigma, n_components \in AnyComponents,
        tradeoff \in Modes, random_state \in Seeds}

\* the input matrices, those with no column included
AnyMatrices ==
    {[i \in 1 .. r |-> [c \in 1 .. cols |-> (i + c) % 2]] :
        r \in 1 .. MaxRowsX, cols \in 0 .. MaxCols}

AnyFitInputs == {X \in AnyMatrices : Len(X) = 1}

InitAny ==
    /\ call = NoCall
    /\ objs \in [{1} -> AnyConfigurations]
    /\ np_random \in RngStates
    /\ last = NoOp
    /\ fits = <<>>

NextAny ==
    \/ \E i \in DOMAIN objs, X \in AnyFitInputs : Fit(i, X)
    \/ \E i \in DOMAIN objs, X \in AnyMatrices : Transform(i, X)

SpecAny == InitAny /\ [][NextAny]_vars

\* C11: a fit whose planning step is given d_orig < 1 or n_components < 1
\* fails, returns no fitted parameters and stores none: the instance is as
\* it was before the call.
C11_InvalidDimensionFails ==
    [][(last'.op = "fit"
          /\ (last'.cols < 1 \/ objs[last'.inst].n_components < 1))
         => (last'.ret.kind = "raise" /\ objs' = objs)]_vars

\* what does hold: a fit on a matrix without columns fails at line 691 and
\* assigns nothing
NoColumnFails ==
    [][(last'.op = "fit" /\ last'.cols < 1)
         => (last'.ret.kind = "raise" /\ objs' = objs)]_vars

\* and with n_components < 1 on a matrix with columns, fit plans k <= 0
\* blocks and assigns them, whatever it returns
NoComponentIsPlanned ==
    [][(last'.op = "fit" /\ last'.cols >= 1
          /\ objs[last'.inst].n_components < 1)
         => /\ objs'[last'.inst].fitted.set
            /\ objs'[last'.inst].fitted.times_to_stack_v <= 0
            /\ objs'[last'.inst].fitted.vectors = <<>>]_vars

\* C12: a fit of an instance configured with sigma <= 0 fails, at the fit
\* call itself.
C12_NonPositiveSigmaFails ==
    (last.op = "fit" /\ objs[last.inst].sigma <= 0) => last.ret.kind = "raise"

\* what does hold: fit does not read sigma; whether it fails is decided by
\* the column count and n_components alone
FitIgnoresSigma ==
    [][last'.op = "fit" =>
         \A sigma \in AnySigma :
             LET other == fit([objs[last'.inst] EXCEPT !.sigma = sigma],
                              np_random, [c \in 1 .. 1 |-> [j \in 1 .. last'.cols |-> 0]])
             IN  /\ other.ret = last'.ret
                 /\ other.self.fitted = objs'[last'.inst].fitted
                 /\ other.glob = np_random']_vars

-----------------------------------------------------------------------------
(* Specification of two fits from one state: the same instance, with its   *)
(* random sources in the same state, is fitted once on X1 and once on X2,  *)
(* two training matrices with the same column count.                       *)

\* the rows x cols matrices of zeros and ones whose entries follow an affine
\* pattern a*i + b*c + e (mod 2): constant, striped by row or column, or
\* chequered
PatternMatrices(rows, cols) ==
    {[i \in 1 .. rows |-> [c \in 1 .. cols |-> (a * i + b * c + e) % 2]] :
        a \in XVals, b \in XVals, e \in XVals}

InitOblivious ==
    /\ \E X1 \in FitInputs, r \in 1 .. MaxRowsX :
         call \in {[fn |-> "oblivious", self |-> self, glob |-> glob,
                    X1 |-> X1, X2 |-> X2,
                    first |-> Pending, second |-> Pending] :
                      self \in Configurations, glob \in RngStates,
                      X2 \in PatternMatrices(r, NumCols(X1))}
    /\ objs = <<>>
    /\ np_random = 0
    /\ last = NoOp
    /\ fits = <<>>

\* self.fit(X1)
FitFirst ==
    /\ call.fn = "oblivious"
    /\ call.first = Pending
    /\ call' = [call EXCEPT !.first = Return(fit(call.self, call.glob, call.X1))]
    /\ UNCHANGED <<objs, np_random, last, fits>>

\* self.fit(X2), from the same state
FitSecond ==
    /\ call.fn = "oblivious"
    /\ call.second = Pending
    /\ call' = [call EXCEPT !.second = Return(fit(call.self, call.glob, call.X2))]
    /\ UNCHANGED <<objs, np_random, last, fits>>

NextOblivious == FitFirst \/ FitSecond

SpecOblivious == InitOblivious /\ [][NextOblivious]_vars

ObliviousDone ==
    call.fn = "oblivious" /\ call.first # Pending /\ call.second # Pending

\* C13: fit started from the same random-source state on two training
\* matrices with the same column count, whatever their values and row
\* counts, returns the same outcome, leaves the same fitted parameters and
\* leaves both random sources (self.rng and the module-level RandomState)
\* in the same state.
C13_FitIsDataOblivious ==
    ObliviousDone =>
        /\ call.first.val.ret = call.second.val.ret
        /\ call.first.val.self.fitted = call.second.val.self.fitted
        /\ call.first.val.self.rng = call.second.val.self.rng
        /\ call.first.val.glob = call.second.val.glob

C13_Witness ==
    /\ ObliviousDone
    /\ Len(call.X1) # Len(call.X2)
    /\ \E c \in 1 .. NumCols(call.X1) : call.X1[1][c] # call.X2[1][c]
    /\ call.first.val.ret = Return("self")
    /\ call.first.val.self.fitted.times_to_stack_v = 2

-----------------------------------------------------------------------------
(* Specification of concurrent transforms: fit has completed on one        *)
(* instance, and every thread makes one call of transform or of            *)
(* transform_fast on it.  A call of transform runs as the steps of its     *)
(* code, one pass of the loop at a time, and the steps of the threads      *)
(* interleave in any order.  The list to_stack of a call is a local of     *)
(* that call: frames holds one list per call frame.                        *)

Threads == {1, 2}
Entries == {"transform", "transform_fast"}

\* a slip: to_stack is kept in one place for all the callers
frame_shared(t) == 1

\* the call frame of thread t: its own
frame(t) == t

Idle ==
    [pc |-> "idle", entry |-> "none", X |-> <<>>, i |-> 0,
     ret |-> Pending, overlapped |-> FALSE]

InitThreads ==
    /\ call = [fn |-> "threads",
               th |-> [t \in Threads |-> Idle],
               frames |-> [t \in Threads |-> <<>>]]
    /\ \E cfg \in Configurations, X \in FitInputs :
         /\ objs = [i \in {1} |-> fit(cfg, 0, X).self]
         /\ np_random = fit(cfg, 0, X).glob
    /\ last = NoOp
    /\ fits = <<>>

\* some thread other than t is inside a call
OthersRunning(t) == \E u \in Threads \ {t} : call.th[u].pc = "loop"

\* thread t enters self.transform(X) (line 755, to_stack = []) or
\* self.transform_fast(X) (line 767, where the name atleast2d_or_csr is not
\* defined in the module)
Begin(t, entry, X) ==
    /\ call.fn = "threads"
    /\ call.th[t].pc = "idle"
    /\ LET self == objs[1]
           running == OthersRunning(t)
           mark == [u \in Threads |->
                      IF running /\ call.th[u].pc = "loop"
                      THEN [call.th[u] EXCEPT !.overlapped = TRUE]
                      ELSE call.th[u]]
       IN  IF entry = "transform_fast"
           THEN call' = [call EXCEPT
                           !.th = [mark EXCEPT ![t] =
                                     [Idle EXCEPT !.pc = "done", !.entry = entry, !.X = X,
                                                  !.ret = Raise("NameError"),
                                                  !.overlapped = running]]]
           ELSE IF ~self.fitted.set
           THEN call' = [call EXCEPT
                           !.th = [mark EXCEPT ![t] =
                                     [Idle EXCEPT !.pc = "done", !.entry = entry, !.X = X,
                                                  !.ret = missing_attribute(self),
                                                  !.overlapped = running]]]
           ELSE call' = [call EXCEPT
                           !.th = [mark EXCEPT ![t] =
                                     [Idle EXCEPT !.pc = "loop", !.entry = entry, !.X = X,
                                                  !.overlapped = running]],
                           !.frames[frame(t)] = <<>>]
    /\ UNCHANGED <<objs, np_random, last, fits>>

\* one pass of the loop of lines 756-760 in thread t
LoopPass(t) ==
    /\ call.fn = "threads"
    /\ call.th[t].pc = "loop"
    /\ call.th[t].i < objs[1].fitted.times_to_stack_v
    /\ call' = [call EXCEPT
                  !.th[t].i = @ + 1,
                  !.frames[frame(t)] =
                      Append(@, transform_block(objs[1], call.th[t].i + 1))]
    /\ UNCHANGED <<objs, np_random, last, fits>>

\* lines 761-764 in thread t, after the last pass of the loop
Finish(t) ==
    /\ call.fn = "threads"
    /\ call.th[t].pc = "loop"
    /\ call.th[t].i >= objs[1].fitted.times_to_stack_v
    /\ call' = [call EXCEPT
                  !.th[t].pc = "done",
                  !.th[t].ret = transform_stacked(objs[1], call.frames[frame(t)],
                                                  call.th[t].X)]
    /\ UNCHANGED <<objs, np_random, last, fits>>

NextThreads ==
    \/ \E t \in Threads, entry \in Entries, X \in FitInputs : Begin(t, entry, X)
    \/ \E t \in Threads : LoopPass(t)
    \/ \E t \in Threads : Finish(t)

SpecThreads == InitThreads /\ [][NextThreads]_vars

\* the outcome of the call of a thread when it runs alone
Alone(self, entry, X) ==
    IF entry = "transform_fast" THEN Raise("NameError") ELSE transform(self, X)

\* C14: after fit has completed, under every interleaving of the steps of
\* concurrent transform calls on the instance, every call ends with the
\* outcome it has when it runs alone: the steps write nothing but the
\* list of their own call.
C14_ConcurrentTransformsAgree ==
    call.fn = "threads" =>
        \A t \in Threads :
            call.th[t].pc = "done" =>
                call.th[t].ret = Alone(objs[1], call.th[t].entry, call.th[t].X)

C14_Witness ==
    /\ call.fn = "threads"
    /\ \A t \in Threads :
          /\ call.th[t].pc = "done"
          /\ call.th[t].entry = "transform"
          /\ call.th[t].overlapped
          /\ call.th[t].ret.kind = "return"
    /\ objs[1].fitted.times_to_stack_v = 2

-----------------------------------------------------------------------------
(* Specification of refitting: one instance on which fit and               *)
(* fit_vectorized are called in any order on matrices of any width; every  *)
(* call is recorded.                                                       *)

\* a call self.fit(X) on instance i, recorded
Refit(i, X) ==
    /\ Len(fits) < MaxFits
    /\ FitCall(i, X)
    /\ fits' = Append(fits, [op |-> "fit", cols |-> NumCols(X)])
    /\ UNCHANGED call

\* a call self.fit_vectorized(X) on instance i, recorded
RefitVectorized(i, X) ==
    /\ Len(fits) < MaxFits
    /\ objs' = [objs EXCEPT ![i] = fit_vectorized(objs[i], np_random, X).self]
    /\ np_random' = fit_vectorized(objs[i], np_random, X).glob
    /\ last' = [op |-> "fit_vectorized", inst |-> i, cols |-> NumCols(X),
                ret |-> fit_vectorized(objs[i], np_random, X).ret]
    /\ fits' = Append(fits, [op |-> "fit_vectorized", cols |-> NumCols(X)])
    /\ UNCHANGED call

NextRefit ==
    \/ \E i \in DOMAIN objs, X \in FitInputs : Refit(i, X)
    \/ \E i \in DOMAIN objs, X \in FitInputs : RefitVectorized(i, X)

SpecRefit == Init /\ [][NextRefit]_vars

\* the attributes a fitting call assigns
AssignedBy(op) ==
    PlanAttributes \cup {"U"} \cup (IF op = "fit" THEN {"vectors"} ELSE BlockAttributes)

\* the list self.vectors, read by transform, transform_fast and
\* transform_fast_one_step, holds k blocks of vectors of length d
VectorsFitPlan(f) ==
    /\ Len(f.vectors) = f.times_to_stack_v
    /\ \A j \in 1 .. Len(f.vectors) :
          /\ Len(f.vectors[j].B) = f.d
          /\ Len(f.vectors[j].G) = f.d
          /\ Len(f.vectors[j].P) = f.d
          /\ Len(f.vectors[j].S) = f.d

\* M holds k rows of length d
RowsFitPlan(M, f) ==
    /\ Len(M) = f.times_to_stack_v
    /\ \A j \in 1 .. Len(M) : Len(M[j]) = f.d

\* the arrays self.B, self.G, self.P, self.S, read by
\* transform_fast_vectorized, hold k rows of length d
ArraysFitPlan(f) ==
    /\ RowsFitPlan(f.B, f)
    /\ RowsFitPlan(f.G, f)
    /\ RowsFitPlan(f.P, f)
    /\ RowsFitPlan(f.S, f)

Refitted == Len(fits) >= 1 /\ last.ret.kind = "return"

\* C16: after any sequence of fit and fit_vectorized calls the fitted state
\* is that of the most recent call: the pad width is d minus its column
\* count, the blocks every transform entry point reads are k blocks of
\* length d, and no attribute an earlier call assigned and the most recent
\* one did not remains readable.
C16_FittedStateIsCurrent ==
    Refitted =>
        LET f == objs[last.inst].fitted
        IN  /\ f.number_of_features_to_pad_with_zeros = f.d - last.cols
            /\ "vectors" \in f.assigned => VectorsFitPlan(f)
            /\ BlockAttributes \subseteq f.assigned => ArraysFitPlan(f)
            /\ f.assigned \subseteq AssignedBy(last.op)

\* what does hold: the plan is that of the most recent call, and so are
\* the blocks that call assigns
LastCallIsCurrent ==
    Refitted =>
        LET f == objs[last.inst].fitted
        IN  /\ f.number_of_features_to_pad_with_zeros = f.d - last.cols
            /\ AssignedBy(last.op) \subseteq f.assigned
            /\ last.op = "fit" => VectorsFitPlan(f)
            /\ last.op = "fit_vectorized" => ArraysFitPlan(f)

\* and calls of one kind alone leave nothing of an earlier call
OneKindIsCurrent ==
    (Refitted /\ \A a \in 1 .. Len(fits) : fits[a].op = last.op) =>
        LET f == objs[last.inst].fitted
        IN  /\ f.assigned = AssignedBy(last.op)
            /\ last.op = "fit" => VectorsFitPlan(f)
            /\ last.op = "fit_vectorized" => ArraysFitPlan(f)

====
